---------------------------- MODULE Spec2Model ----------------------------
(***************************************************************************)
(* A model of chatmacro.c (the chat wheel variant): the start-up sequence  *)
(* of main, its event loop with the WM_HOTKEY message hook, the shutdown   *)
(* sequence, and hotkey_fn_say, the function that types the current macro  *)
(* line through SendInput.                                                 *)
(*                                                                         *)
(* Two specifications share the variables:                                 *)
(*   Spec     the program as main runs it (hotkeys[] holds the toggle and  *)
(*            the quit binding only);                                      *)
(*   SaySpec  macros_read followed by calls of hotkey_fn_say on the state  *)
(*            it produced (the function is bound to no hotkey in main).    *)
(* FairSpec is Spec with the fairness the sequential control flow of main  *)
(* gives.                                                                  *)
(***************************************************************************)
EXTENDS Integers, Sequences, FiniteSets, TLC

(***************************************************************************)
(* Bounds of the model.                                                    *)
(***************************************************************************)
\* longest macro text handed to hotkey_fn_say
MaxLen == 3
\* most lines in a macro file
MaxLines == 2
\* largest wParam of a WM_HOTKEY message delivered to the hook
MaxWParam == 3

(***************************************************************************)
(* Program constants.                                                      *)
(***************************************************************************)
\* ARRSIZE(hotkeys)
HOTKEYS_LEN == 2
\* index of { HOTKEY_TOGGLE, 0x4000, hotkey_fn_togglewheel } in hotkeys[]
TOGGLE_ID == 0
\* index of { HOTKEY_QUIT, 0x4000, hotkey_fn_quit } in hotkeys[]
QUIT_ID == 1
\* winuser.h values used by hotkey_fn_say
VK_LSHIFT == 160
VK_RETURN == 13
KEYEVENTF_KEYUP == 2
\* the literal 'T' handed to sendkey_single
TRIGGER_KEY == 84
\* the argument of Sleep
SETTLE_DELAY == 50

NULL == "NULL"

VARIABLES
    pc,          \* position of main
    i,           \* main's loop index i
    fileExists,  \* whether fopen(MACRO_FILE, "r") succeeds
    file,        \* the lines fgets returns, in order
    lines,       \* state.lines (<<>> is the NULL pointer, lines_len = Len)
    curr,        \* state.curr
    is_running,  \* state.is_running
    is_active,   \* state.is_active
    gWindow,     \* state.gWindow
    gRenderer,   \* state.gRenderer
    registered,  \* the hotkey ids the OS holds for this thread
    exit_code,   \* the status the process ended with, -1 while it runs
    delivered,   \* the message the hook was last called with in this poll
    reg_failed,  \* a RegisterHotKey/UnregisterHotKey call returned 0
    sdl_failed,  \* an SDL_CreateWindow/SDL_CreateRenderer call returned NULL
    toggled,     \* the applications of hotkey_fn_togglewheel counted in pairs,
                 \* with the bindings and is_active before the first of a pair
    ks,          \* <<the value GetAsyncKeyState returned>> in the last loop
                 \* iteration, <<>> when it was not called
    rendered,    \* what Render did in the last loop iteration
    pcSay,       \* position of hotkey_fn_say
    s,           \* hotkey_fn_say's s
    si,          \* hotkey_fn_say's i
    vk,          \* hotkey_fn_say's vk
    sk,          \* hotkey_fn_say's sk
    inputs,      \* hotkey_fn_say's inputs[0 .. inputs_len-1]
    starts,      \* inputs_len where each character's events, and then the
                 \* ENTER event, begin
    log,         \* the OS calls of the current hotkey_fn_say invocation
    errs,        \* the ERR diagnostics of the current invocation
    inputs_cap,  \* hotkey_fn_say's inputs_cap
    writes,      \* for each event written to inputs: its index, the capacity
                 \* at that moment, whether a C_RESIZE came since the last write
    last_op,     \* the last operation on inputs: "resize", "write" or "none"
    banks,       \* the store's banks in order, each with its number of macros
                 \* and its current_macro_index
    current_bank_index,  \* the store's cursor
    nav_run,     \* the run of consecutive +1 shifts of one cursor: the cursor,
                 \* its bank, its index before the run, the shifts so far
    nav_last     \* the last navigation call: operation, delta, index before
                 \* and after, length the cursor ranges over

mainVars == <<pc, i, fileExists, file, lines, curr, is_running, is_active,
              gWindow, gRenderer, registered, exit_code, delivered, reg_failed,
              sdl_failed, toggled, ks, rendered>>
\* the variables hotkey_fn_togglewheel writes, and those of one loop iteration
wheelVars == <<is_active, gWindow, gRenderer, sdl_failed, toggled>>
loopVars == <<ks, rendered>>
sayVars == <<pcSay, s, si, vk, sk, inputs, starts, log, errs, inputs_cap,
             writes, last_op>>
navVars == <<banks, current_bank_index, nav_run, nav_last>>
vars == <<mainVars, sayVars, navVars>>

(***************************************************************************)
(* Text.  A character is a one-character string; a line is a sequence of   *)
(* characters.                                                             *)
(***************************************************************************)
RECURSIVE SeqsUpTo(_, _)
SeqsUpTo(S, n) ==
    IF n = 0 THEN {<<>>}
    ELSE LET shorter == SeqsUpTo(S, n - 1)
         IN  shorter \cup {Append(t, c) : t \in shorter, c \in S}

\* isspace
IsSpace(c) == c \in {" ", "\t", "\n", "\r"}

\* rtrim : strip the trailing whitespace of a line
RECURSIVE rtrim(_)
rtrim(l) ==
    IF l # <<>> /\ IsSpace(l[Len(l)]) THEN rtrim(SubSeq(l, 1, Len(l) - 1))
    ELSE l

\* the characters of the macro texts of SaySpec: a plain and a shifted letter,
\* a plain and a shifted character of a key whose virtual key code is above
\* 0x7f, and a character the keyboard layout of the model has no key for
SayChars == {"a", "A", ";", ":", "~"}
SayLines == {t \o <<"\n">> : t \in SeqsUpTo(SayChars, MaxLen)}

\* the lines of the macro files of Spec
MainLines == {<<"\n">>, <<"a", "\n">>, <<"#", "a", "\n">>, <<"\t", "a", " ", "\n">>}
MainFiles == SeqsUpTo(MainLines, MaxLines)

\* the macro files of SaySpec: the empty file, and the files whose first line
\* (the one state.curr selects) is any text and whose other lines are lines
\* of the files of Spec
SayFiles ==
    {<<>>} \cup {<<l>> \o rest : l \in SayLines, rest \in SeqsUpTo(MainLines, MaxLines - 1)}

(***************************************************************************)
(* macros_read                                                             *)
(***************************************************************************)
macros_read_rc_ignores_fopen(exists) == 0

\* the return value: -1 when fopen fails
macros_read_rc(exists) == IF exists THEN 0 ELSE -1

\* state->lines after the fgets loop over the lines of the file
RECURSIVE macros_read_lines(_)
macros_read_lines(f) ==
    IF f = <<>> THEN <<>>
    ELSE <<rtrim(Head(f))>> \o macros_read_lines(Tail(f))

\* memset(state, 0, sizeof(*state)), then the lines of the file if it opens
macros_read ==
    /\ curr' = 0
    /\ is_running' = 0
    /\ is_active' = 0
    /\ gWindow' = NULL
    /\ gRenderer' = NULL
    /\ lines' = IF fileExists THEN macros_read_lines(file) ELSE <<>>

(***************************************************************************)
(* The hotkey functions of hotkeys[].                                      *)
(***************************************************************************)
hotkey_fn_quit_keeps_running ==
    /\ is_running' = is_running
    /\ UNCHANGED wheelVars

hotkey_fn_quit ==
    /\ is_running' = 0
    /\ UNCHANGED wheelVars

\* the bookkeeping of an application of hotkey_fn_togglewheel
togglewheel_applied ==
    /\ toggled' = IF toggled.n = 1
                  THEN [toggled EXCEPT !.n = 2]
                  ELSE [n |-> 1, before |-> <<registered, is_active>>]
    /\ sdl_failed' = (sdl_failed \/ (is_active' # 0 /\ (gWindow' = NULL \/ gRenderer' = NULL)))

hotkey_fn_togglewheel_sets_active ==
    /\ is_active' = 1
    /\ IF is_active = 0
       THEN \E w \in {NULL, "window"} :
               /\ gWindow' = w
               /\ gRenderer' \in (IF w = NULL THEN {NULL} ELSE {NULL, "renderer"})
       ELSE /\ gWindow' = NULL
            /\ gRenderer' = NULL
    /\ togglewheel_applied
    /\ UNCHANGED is_running

hotkey_fn_togglewheel_keeps_pointers ==
    /\ is_active' = IF is_active = 0 THEN 1 ELSE 0
    /\ IF is_active = 0
       THEN \E w \in {NULL, "window"} :
               /\ gWindow' = w
               /\ gRenderer' \in (IF w = NULL THEN {NULL} ELSE {NULL, "renderer"})
       ELSE /\ gWindow' = gWindow
            /\ gRenderer' = gRenderer
    /\ togglewheel_applied
    /\ UNCHANGED is_running

hotkey_fn_togglewheel ==
    /\ is_active' = IF is_active = 0 THEN 1 ELSE 0
    /\ IF is_active = 0
       THEN \* SDL_CreateWindow and SDL_CreateRenderer may return NULL
            \E w \in {NULL, "window"} :
               /\ gWindow' = w
               /\ gRenderer' \in (IF w = NULL THEN {NULL} ELSE {NULL, "renderer"})
       ELSE /\ gWindow' = NULL
            /\ gRenderer' = NULL
    /\ togglewheel_applied
    /\ UNCHANGED is_running

\* hotkeys[wparam].func(state) for an index inside hotkeys[]
hotkeys_func(wparam) ==
    IF wparam = TOGGLE_ID THEN hotkey_fn_togglewheel ELSE hotkey_fn_quit

\* hotkeys[wparam].func(state) for an index outside hotkeys[]: the read is
\* out of bounds and the call goes through whatever it finds there, so the
\* process dies, or the call returns having done nothing, or it lands on
\* one of the program's own functions
hotkeys_func_oob ==
    \/ /\ pc' = "crashed"
       /\ UNCHANGED <<is_running, wheelVars>>
    \/ /\ pc' = pc
       /\ UNCHANGED <<is_running, wheelVars>>
    \/ /\ pc' = pc
       /\ hotkey_fn_togglewheel
    \/ /\ pc' = pc
       /\ hotkey_fn_quit

\* the guard of the hook: message == WM_HOTKEY && !hkarg->state->is_active
handler_gate_always_open(message) == message = "WM_HOTKEY"

handler_gate(message) == message = "WM_HOTKEY" /\ is_active = 0

Win32_CustomEventHandler(message, wparam) ==
    /\ pc = "poll"
    /\ delivered' = <<message, wparam>>
    /\ IF handler_gate(message)
       THEN IF wparam \in 0 .. HOTKEYS_LEN - 1
            THEN pc' = pc /\ hotkeys_func(wparam)
            ELSE hotkeys_func_oob
       ELSE UNCHANGED <<pc, is_running, wheelVars>>
    /\ UNCHANGED <<i, fileExists, file, lines, curr, registered, exit_code,
                   reg_failed, loopVars, sayVars, navVars>>

(***************************************************************************)
(* main                                                                    *)
(***************************************************************************)
\* lines 155-161: parse the macro file, exit(1) if that fails
main_parse ==
    /\ pc = "start"
    /\ macros_read
    /\ IF macros_read_rc(fileExists) < 0
       THEN pc' = "exited" /\ exit_code' = 1
       ELSE pc' = "register" /\ exit_code' = exit_code
    /\ i' = 0
    /\ UNCHANGED <<fileExists, file, registered, delivered, reg_failed,
                   sdl_failed, toggled, loopVars, sayVars, navVars>>

on_hotkey_failure_carries_on ==
    /\ pc' = pc
    /\ exit_code' = exit_code
    /\ UNCHANGED <<i, registered, is_running>>

\* what main does when RegisterHotKey or UnregisterHotKey returns 0
on_hotkey_failure ==
    /\ pc' = "exited"
    /\ exit_code' = 1
    /\ UNCHANGED <<i, registered, is_running>>

\* lines 164-170 and 172-187: one RegisterHotKey call of the loop; after the
\* last one SDL is set up and the event loop is entered with is_running = 1
main_register ==
    /\ pc = "register"
    /\ \E rc \in {0, 1} :
          /\ reg_failed' = (reg_failed \/ rc = 0)
          /\ IF rc = 0
             THEN on_hotkey_failure
             ELSE /\ registered' = [registered EXCEPT ![i] = TRUE]
                  /\ i' = i + 1
                  /\ exit_code' = exit_code
                  /\ IF i + 1 < HOTKEYS_LEN
                     THEN pc' = "register" /\ is_running' = is_running
                     ELSE pc' = "poll" /\ is_running' = 1
    /\ UNCHANGED <<fileExists, file, lines, curr, wheelVars, delivered,
                   loopVars, sayVars, navVars>>

\* lines 194-204: SDL_PollEvent pumps a Windows message through the hook
main_poll_message ==
    \E message \in {"WM_HOTKEY", "WM_OTHER"}, wparam \in 0 .. MaxWParam :
        Win32_CustomEventHandler(message, wparam)

\* lines 194-199: SDL_PollEvent returns an SDL_QUIT event
main_poll_quit ==
    /\ pc = "poll"
    /\ is_running' = 0
    /\ delivered' = <<"SDL_QUIT", 0>>
    /\ UNCHANGED <<pc, i, fileExists, file, lines, curr, wheelVars,
                   registered, exit_code, reg_failed, loopVars, sayVars, navVars>>

\* the values of GetAsyncKeyState(HOTKEY_TOGGLE) as the s16 ks: the top bit
\* says the key is down, the low bit that it was pressed since the last call
KeyStates == {0, 1, -32768, -32767}

toggle_released_never(k) == FALSE

\* the test of line 220 inside the `if (state.is_active)` of line 210
toggle_released(k) == k = 0

\* Render : returns -1 when there is neither window nor renderer, else draws
\* with state->gRenderer
Render(window, renderer) ==
    IF window = NULL /\ renderer = NULL THEN "return -1" ELSE renderer

\* lines 194, 210-229 and the loop condition of 187: SDL_PollEvent returns 0,
\* an active wheel is closed when the toggle key reads as released, and the
\* loop goes round or ends
main_body ==
    /\ pc = "poll"
    /\ delivered' = <<"none", 0>>
    /\ IF is_active # 0
       THEN /\ \E k \in KeyStates : ks' = <<k>>
            /\ IF toggle_released(ks'[1])
               THEN hotkey_fn_togglewheel
               ELSE UNCHANGED <<is_running, wheelVars>>
            /\ rendered' = Render(gWindow', gRenderer')
       ELSE /\ ks' = <<>>
            /\ rendered' = "none"
            /\ UNCHANGED <<is_running, wheelVars>>
    /\ pc' = IF is_running # 0 THEN "poll" ELSE "cleanup"
    /\ UNCHANGED <<i, fileExists, file, lines, curr, registered, exit_code,
                   reg_failed, sayVars, navVars>>

\* lines 231-239: destroy the renderer and the window that are left, SDL_Quit
main_cleanup ==
    /\ pc = "cleanup"
    /\ pc' = "unregister"
    /\ i' = 0
    /\ UNCHANGED <<fileExists, file, lines, curr, is_running, wheelVars,
                   registered, exit_code, delivered, reg_failed, loopVars,
                   sayVars, navVars>>

\* lines 242-250: one UnregisterHotKey call of the loop; return 0 after the last
main_unregister ==
    /\ pc = "unregister"
    /\ \E rc \in {0, 1} :
          /\ reg_failed' = (reg_failed \/ rc = 0)
          /\ IF rc = 0
             THEN on_hotkey_failure
             ELSE /\ registered' = [registered EXCEPT ![i] = FALSE]
                  /\ i' = i + 1
                  /\ is_running' = is_running
                  /\ IF i + 1 < HOTKEYS_LEN
                     THEN pc' = "unregister" /\ exit_code' = exit_code
                     ELSE pc' = "exited" /\ exit_code' = 0
    /\ UNCHANGED <<fileExists, file, lines, curr, wheelVars, delivered,
                   loopVars, sayVars, navVars>>

(***************************************************************************)
(* hotkey_fn_say                                                           *)
(***************************************************************************)
\* conversion of an integer to s8 and to the 16-bit WORD of KEYBDINPUT
S8(x) == LET b == x % 256 IN IF b >= 128 THEN b - 256 ELSE b
WORD(x) == (x + 65536) % 65536

\* VkKeyScanA on the keyboard layout of the model, as the u16 `scan`: the
\* virtual key code in the low byte, the shift state in the high byte, and
\* -1 (0xffff) for a character the layout has no key for
VkKeyScanA(c) ==
    CASE c = "a" -> 65
      [] c = "A" -> 256 + 65
      [] c = ";" -> 186
      [] c = ":" -> 256 + 186
      [] OTHER   -> 65535

\* what the lookup reports, as the layout service documents it
LookupFound(c) == VkKeyScanA(c) # 65535
RequiresShift(c) == LookupFound(c) /\ (VkKeyScanA(c) \div 256) % 2 = 1

\* vk = scan; sk = scan >> 8; (both s8)
scan_vk(scan) == S8(scan)
scan_sk(scan) == S8(scan \div 256)

\* the test `sk & 0x01` of lines 392 and 408
shift_should_be_pushed(k) == WORD(k) % 2 = 1

mk_kbdinput(v, k, key_up) ==
    [wVk |-> WORD(v), wScan |-> WORD(k),
     dwFlags |-> IF key_up # 0 THEN KEYEVENTF_KEYUP ELSE 0]

say_char_inputs_shift_held(v, k) ==
    (IF shift_should_be_pushed(k) THEN <<mk_kbdinput(VK_LSHIFT, 0, 0)>> ELSE <<>>)
    \o <<mk_kbdinput(v, 0, 0), mk_kbdinput(v, 0, 1)>>

\* the events one iteration of the loop of lines 381-413 adds to inputs
say_char_inputs(v, k) ==
    (IF shift_should_be_pushed(k) THEN <<mk_kbdinput(VK_LSHIFT, 0, 0)>> ELSE <<>>)
    \o <<mk_kbdinput(v, 0, 0), mk_kbdinput(v, 0, 1)>>
    \o (IF shift_should_be_pushed(k) THEN <<mk_kbdinput(VK_LSHIFT, 0, 1)>> ELSE <<>>)

\* the events lines 415-417 add after the loop
say_enter_inputs(k) == <<mk_kbdinput(VK_RETURN, k, 0)>>

\* the record of one OS call
SendInputCall(events, ret) ==
    [call |-> "SendInput", arg |-> Len(events), events |-> events, ret |-> ret]
SleepCall(ms) == [call |-> "Sleep", arg |-> ms, events |-> <<>>, ret |-> 0]

\* sendkey_single : one key-down event through SendInput, result ignored
sendkey_single(keycode, ret) == SendInputCall(<<mk_kbdinput(keycode, 0, 0)>>, ret)

say_prelude_no_delay(ret) == <<sendkey_single(TRIGGER_KEY, ret)>>

\* the calls of lines 368-375 that precede the translation
say_prelude(ret) == <<sendkey_single(TRIGGER_KEY, ret), SleepCall(SETTLE_DELAY)>>

\* the capacity the first C_RESIZE of an empty array allocates, scaled down so
\* that the texts of the model fill it
BUFSMALL == 2

\* C_RESIZE(&inputs) : grow the array when inputs_len has reached inputs_cap
c_resize(len, cap) ==
    IF len = cap THEN (IF cap = 0 THEN BUFSMALL ELSE 2 * cap) ELSE cap

\* n times `C_RESIZE(&inputs); mk_kbdinput(inputs + inputs_len, ...);
\* inputs_len++;` as in lines 393-395: the writes, and the capacity afterwards
RECURSIVE resized_writes(_, _, _)
resized_writes(len, cap, n) ==
    IF n = 0 THEN <<>>
    ELSE <<[index |-> len, cap |-> c_resize(len, cap), resized |-> TRUE]>>
         \o resized_writes(len + 1, c_resize(len, cap), n - 1)

RECURSIVE cap_after(_, _, _)
cap_after(len, cap, n) ==
    IF n = 0 THEN cap ELSE cap_after(len + 1, c_resize(len, cap), n - 1)

\* the write of lines 416-417, which no C_RESIZE precedes
enter_write(len, cap, last) == [index |-> len, cap |-> cap, resized |-> last = "resize"]

\* the values the uninitialised local sk may hold (it is read at line 416
\* without having been written when the text is empty)
SkGarbage == {-1, 0, 1}

\* lines 358-362: assert(state->lines) stops the process when no line was
\* read; a build without assertions reads through the NULL pointer instead
say_no_lines == pcSay' \in {"aborted", "crashed"}

\* lines 358-375: the assertions, the current line, the trigger key and the
\* settle delay
hotkey_fn_say_begin ==
    /\ pc = "register"
    /\ pcSay \in {"idle", "returned"}
    /\ IF lines = <<>>
       THEN /\ say_no_lines
            /\ UNCHANGED <<s, si, vk, sk, inputs, starts, log, errs,
                           inputs_cap, writes, last_op>>
       ELSE /\ pcSay' = "loop"
            /\ s' = lines[curr + 1]
            /\ si' = 0
            /\ vk' = 0
            /\ sk' \in SkGarbage
            /\ inputs' = <<>>
            /\ starts' = <<>>
            /\ \E ret \in {0, 1} : log' = say_prelude(ret)
            /\ errs' = 0
            /\ inputs_cap' = c_resize(0, 0)
            /\ writes' = <<>>
            /\ last_op' = "resize"
    /\ UNCHANGED <<mainVars, navVars>>

\* lines 381-413: one iteration of the loop over the characters of s
hotkey_fn_say_char ==
    /\ pcSay = "loop"
    /\ si < Len(s)
    /\ LET scan == VkKeyScanA(s[si + 1])
       IN  /\ vk' = scan_vk(scan)
           /\ sk' = scan_sk(scan)
           /\ inputs' = inputs \o say_char_inputs(scan_vk(scan), scan_sk(scan))
    /\ starts' = Append(starts, Len(inputs))
    /\ si' = si + 1
    /\ writes' = writes \o resized_writes(Len(inputs), inputs_cap, Len(inputs') - Len(inputs))
    /\ inputs_cap' = cap_after(Len(inputs), inputs_cap, Len(inputs') - Len(inputs))
    /\ last_op' = "write"
    /\ UNCHANGED <<pcSay, s, log, errs, mainVars, navVars>>

\* lines 415-418: the ENTER event after the last character, written before
\* the C_RESIZE of line 418; a write past the capacity corrupts the heap, and
\* the process may die of it
hotkey_fn_say_enter ==
    /\ pcSay = "loop"
    /\ si = Len(s)
    /\ inputs' = inputs \o say_enter_inputs(sk)
    /\ starts' = Append(starts, Len(inputs))
    /\ writes' = Append(writes, enter_write(Len(inputs), inputs_cap, last_op))
    /\ inputs_cap' = c_resize(Len(inputs) + 1, inputs_cap)
    /\ last_op' = "resize"
    /\ pcSay' \in (IF Len(inputs) < inputs_cap THEN {"send"} ELSE {"send", "crashed"})
    /\ UNCHANGED <<s, si, vk, sk, log, errs, mainVars, navVars>>

say_send_calls_retry(rc) == IF rc # Len(inputs) THEN 2 ELSE 1

\* the number of SendInput calls of lines 420-423 for a given result
say_send_calls(rc) == 1

\* lines 420-427: hand inputs to SendInput, report a short count, return 0
hotkey_fn_say_send ==
    /\ pcSay = "send"
    /\ \E rc \in 0 .. Len(inputs) :
          /\ log' = log \o [k \in 1 .. say_send_calls(rc) |-> SendInputCall(inputs, rc)]
          /\ errs' = IF rc # Len(inputs) THEN errs + 1 ELSE errs
    /\ pcSay' = "returned"
    /\ UNCHANGED <<s, si, vk, sk, inputs, starts, inputs_cap, writes, last_op,
                   mainVars, navVars>>

(***************************************************************************)
(* Macro store navigation.  hotkey_fn_macro is declared (lines 116-117)   *)
(* and the file header gives NUMPAD 1/2 and 4/5 to it, but its definition  *)
(* is not part of the source; shift_bank and shift_macro follow section    *)
(* 4.2 of the specification.  Cursors are 0-based, banks[b + 1] is bank b. *)
(***************************************************************************)
MaxBanks == 2
MaxMacros == 2

\* the deltas the callers pass
NavDeltas == {-1, 1}

\* a bank: its macro count and its cursor, 0 at creation
Bank(n) == [macros |-> n, current_macro_index |-> 0]
Stores == SeqsUpTo({Bank(n) : n \in 0 .. MaxMacros}, MaxBanks)

NoRun == [axis |-> "none", bank |-> 0, start |-> 0, count |-> 0]
NoCall == [op |-> "none", delta |-> 0, from |-> 0, to |-> 0, len |-> 0]

\* a cursor that forgets the upper branch
wrap_cursor_no_upper(idx, delta, len) ==
    LET r == idx + delta
    IN  IF r < 0 THEN len - 1 ELSE r

\* the two-branch wrap: negative wraps to len - 1, >= len wraps to 0
wrap_cursor(idx, delta, len) ==
    LET r == idx + delta
    IN  IF r < 0 THEN len - 1
        ELSE IF r >= len THEN 0
        ELSE r

\* the run of +1 shifts after one more shift of cursor axis of bank b
run_after(axis, b, delta, from, len) ==
    IF delta # 1 THEN NoRun
    ELSE IF nav_run.axis = axis /\ nav_run.bank = b /\ nav_run.count < len
    THEN [nav_run EXCEPT !.count = @ + 1]
    ELSE [axis |-> axis, bank |-> b, start |-> from, count |-> 1]

shift_bank(delta) ==
    /\ pc = "start"
    /\ IF Len(banks) = 0
       THEN /\ UNCHANGED current_bank_index
            /\ nav_run' = NoRun
            /\ nav_last' = [op |-> "shift_bank", delta |-> delta,
                            from |-> current_bank_index,
                            to |-> current_bank_index, len |-> 0]
       ELSE /\ current_bank_index' = wrap_cursor(current_bank_index, delta, Len(banks))
            /\ nav_run' = run_after("bank", 0, delta, current_bank_index, Len(banks))
            /\ nav_last' = [op |-> "shift_bank", delta |-> delta,
                            from |-> current_bank_index,
                            to |-> current_bank_index', len |-> Len(banks)]
    /\ UNCHANGED <<banks, mainVars, sayVars>>

\* the active bank's macro count, 0 when the store has no banks
active_macros == IF Len(banks) = 0 THEN 0 ELSE banks[current_bank_index + 1].macros

shift_macro(delta) ==
    /\ pc = "start"
    /\ IF active_macros = 0
       THEN /\ UNCHANGED banks
            /\ nav_run' = NoRun
            /\ nav_last' = [op |-> "shift_macro", delta |-> delta,
                            from |-> 0, to |-> 0, len |-> 0]
       ELSE LET b == current_bank_index + 1
                from == banks[b].current_macro_index
            IN  /\ banks' = [banks EXCEPT ![b].current_macro_index =
                                 wrap_cursor(from, delta, active_macros)]
                /\ nav_run' = run_after("macro", current_bank_index, delta, from, active_macros)
                /\ nav_last' = [op |-> "shift_macro", delta |-> delta, from |-> from,
                                to |-> banks'[b].current_macro_index,
                                len |-> active_macros]
    /\ UNCHANGED <<current_bank_index, mainVars, sayVars>>

(***************************************************************************)
(* Specifications.                                                         *)
(***************************************************************************)
ProgramInit(Files) ==
    /\ pc = "start"
    /\ i = 0
    /\ fileExists \in BOOLEAN
    /\ file \in Files
    /\ lines = <<>>
    /\ curr = 0
    /\ is_running = 0
    /\ is_active = 0
    /\ gWindow = NULL
    /\ gRenderer = NULL
    /\ registered = [h \in 0 .. HOTKEYS_LEN - 1 |-> FALSE]
    /\ exit_code = -1
    /\ delivered = <<"none", 0>>
    /\ reg_failed = FALSE
    /\ sdl_failed = FALSE
    /\ toggled = [n |-> 0, before |-> <<[h \in 0 .. HOTKEYS_LEN - 1 |-> FALSE], 0>>]
    /\ ks = <<>>
    /\ rendered = "none"
    /\ pcSay = "idle"
    /\ s = <<>>
    /\ si = 0
    /\ vk = 0
    /\ sk = 0
    /\ inputs = <<>>
    /\ starts = <<>>
    /\ log = <<>>
    /\ errs = 0
    /\ inputs_cap = 0
    /\ writes = <<>>
    /\ last_op = "none"

\* the program starts with no store loaded
InitWith(Files) ==
    /\ ProgramInit(Files)
    /\ banks = <<>>
    /\ current_bank_index = 0
    /\ nav_run = NoRun
    /\ nav_last = NoCall

Init == InitWith(MainFiles)

Next ==
    \/ main_parse
    \/ main_register
    \/ main_poll_message
    \/ main_poll_quit
    \/ main_body
    \/ main_cleanup
    \/ main_unregister

Spec == Init /\ [][Next]_vars

\* main runs on: each of its steps is taken once it can be
FairSpec == Spec /\ WF_vars(main_body) /\ WF_vars(main_cleanup) /\ WF_vars(main_unregister)

\* the loop iteration that reads the toggle key as released
main_body_release == main_body /\ ks' = <<0>>

\* Spec for a user who lets go of the toggle key while the loop runs: main
\* runs on, and an iteration that reads the key as released comes
ReleaseSpec == Spec /\ WF_vars(main_body) /\ WF_vars(main_body_release)

SayInit == InitWith(SayFiles)

SayNext ==
    \/ main_parse
    \/ hotkey_fn_say_begin
    \/ hotkey_fn_say_char
    \/ hotkey_fn_say_enter
    \/ hotkey_fn_say_send

SaySpec == SayInit /\ [][SayNext]_vars

\* navigation over every store within the bounds, before main starts
NavInit ==
    /\ ProgramInit({<<>>})
    /\ banks \in Stores
    /\ current_bank_index = 0
    /\ nav_run = NoRun
    /\ nav_last = NoCall

NavNext ==
    \/ \E delta \in NavDeltas : shift_bank(delta)
    \/ \E delta \in NavDeltas : shift_macro(delta)

NavSpec == NavInit /\ [][NavNext]_vars

(***************************************************************************)
(* Properties of hotkey_fn_say (checked under SaySpec).                    *)
(***************************************************************************)
\* inputs holds everything hotkey_fn_say hands to SendInput
SayBuilt == pcSay \in {"send", "returned"}

\* the events of character j of s, and the events after the last character
CharInputs(j) == SubSeq(inputs, starts[j] + 1, starts[j + 1])
TrailingInputs == SubSeq(inputs, starts[Len(s) + 1] + 1, Len(inputs))

ShiftCount(t) == Cardinality({j \in 1 .. Len(t) : RequiresShift(t[j])})

IsPress(e, key) == e.wVk = key /\ e.dwFlags = 0
IsRelease(e, key) == e.wVk = key /\ e.dwFlags = KEYEVENTF_KEYUP

\* C1: for a text of length L with S shift-requiring characters the sequence
\* handed to the injector has exactly 4*S + 2*(L-S) + 2 events (2 for the
\* empty text).
C1_LengthLaw ==
    SayBuilt => Len(inputs) = 4 * ShiftCount(s) + 2 * (Len(s) - ShiftCount(s)) + 2

\* a press and a release of one key other than SHIFT
IsKeyPair(e1, e2) ==
    /\ e1.wVk = e2.wVk
    /\ e1.wVk # VK_LSHIFT
    /\ e1.dwFlags = 0
    /\ e2.dwFlags = KEYEVENTF_KEYUP

C3_LookupFailureEmitsNothing ==
    SayBuilt =>
        /\ \A j \in 1 .. Len(s) : ~LookupFound(s[j]) => CharInputs(j) = <<>>
        /\ Len(starts) = Len(s) + 1
        /\ TrailingInputs # <<>>

\* the trigger keystroke of sendkey_single, the settle delay, the injection
IsTriggerCall(c) ==
    /\ c.call = "SendInput"
    /\ c.arg = 1
    /\ c.events = <<mk_kbdinput(TRIGGER_KEY, 0, 0)>>
IsDelayCall(c) == c.call = "Sleep" /\ c.arg = SETTLE_DELAY
IsInjectCall(c) == c.call = "SendInput" /\ ~IsTriggerCall(c)

\* C8: a say invocation emits exactly one trigger keystroke first, then waits
\* the 50-unit delay, and only then hands the translated sequence to the
\* injector: every injection in the log comes after the delay, which comes
\* after the one trigger keystroke.
C8_SayOrdering ==
    pcSay \in {"loop", "send", "returned"} =>
        /\ Len(log) >= 2
        /\ IsTriggerCall(log[1])
        /\ IsDelayCall(log[2])
        /\ \A k \in 2 .. Len(log) : ~IsTriggerCall(log[k])
        /\ \A k \in 1 .. Len(log) : IsInjectCall(log[k]) => k > 2
        /\ pcSay \in {"loop", "send"} => Len(log) = 2
        /\ pcSay = "returned" =>
              \E k \in 3 .. Len(log) : IsInjectCall(log[k]) /\ log[k].events = inputs

C8_Witness ==
    /\ pcSay = "returned"
    /\ Len(s) > 0
    /\ Len(log) = 3
    /\ log[3].events = inputs

\* C9: a say invocation calls the injector exactly once with the whole
\* translated sequence; when fewer events are accepted than submitted the
\* error is reported once, nothing is submitted again, say returns, and
\* is_running, is_active, the lines and the cursor are as they were.
C9_PartialInjection ==
    pcSay = "returned" =>
        /\ Cardinality({k \in 1 .. Len(log) : IsInjectCall(log[k])}) = 1
        /\ IsInjectCall(log[Len(log)])
        /\ log[Len(log)].events = inputs
        /\ log[Len(log)].arg = Len(inputs)
        /\ errs = (IF log[Len(log)].ret < Len(inputs) THEN 1 ELSE 0)
        /\ is_running = 0
        /\ is_active = 0
        /\ curr = 0
        /\ lines = macros_read_lines(file)

C9_Witness ==
    /\ pcSay = "returned"
    /\ Len(inputs) > 2
    /\ log[Len(log)].ret < Len(inputs)
    /\ log[Len(log)].ret > 0
    /\ errs = 1

\* C10: when no macro text is stored at the current position (an empty macro
\* file) say neither aborts nor crashes, and the cursor is inside the lines
\* whenever it is dereferenced.
C10_EmptyStoreSafe ==
    /\ pcSay \notin {"aborted", "crashed"}
    /\ pcSay \in {"loop", "send", "returned"} => (0 <= curr /\ curr < Len(lines))

(***************************************************************************)
(* Properties of main and of the message hook (checked under Spec and      *)
(* FairSpec).                                                              *)
(***************************************************************************)
\* C4 as stated: in every state of the event loop the quit trigger, once
\* delivered to the hook, has set is_running = 0.
C4_QuitAlwaysTerminates ==
    delivered = <<"WM_HOTKEY", QUIT_ID>> => is_running = 0

\* C4: while the wheel is not active, the quit trigger delivered to the hook
\* sets is_running = 0, and a loop whose is_running is 0 ends, and the process
\* with it, without further input.
C4_QuitTerminatesWhenInactive ==
    /\ []((delivered = <<"WM_HOTKEY", QUIT_ID>> /\ is_active = 0) => is_running = 0)
    /\ ((pc = "poll" /\ is_running = 0) ~> (pc \in {"exited", "crashed"}))

C4_Witness ==
    /\ delivered = <<"WM_HOTKEY", QUIT_ID>>
    /\ is_active = 0
    /\ is_running = 0
    /\ pc = "poll"

\* C5: the dispatch of a trigger id outside the binding table changes nothing
\* and never ends the process.
C5_UnknownTriggerNoOp ==
    [][(\E w \in HOTKEYS_LEN .. MaxWParam : Win32_CustomEventHandler("WM_HOTKEY", w))
           => (pc' = pc /\ UNCHANGED <<is_running, is_active, gWindow, gRenderer,
                                        lines, curr>>)]_vars

C7_FatalIOError ==
    ~fileExists =>
        /\ pc \in {"start", "exited"}
        /\ pc = "exited" => exit_code = 1
        /\ \A h \in 0 .. HOTKEYS_LEN - 1 : ~registered[h]
        /\ ~reg_failed
        /\ is_running = 0

C7_Witness == ~fileExists /\ pc = "exited" /\ exit_code = 1

(***************************************************************************)
(* Properties of macros_read (checked under Spec).                         *)
(***************************************************************************)
\* macros_read has returned 0
Parsed == pc # "start" /\ fileExists

\* C11: no line that is empty after right-trim and no line whose first
\* character is '#' produces an entry of the store.
C11_CommentsAndBlanksIgnored ==
    Parsed => \A k \in 1 .. Len(lines) : lines[k] # <<>> /\ lines[k][1] # "#"

\* the classes of lines of the macro file format
IsIgnoredLine(l) == rtrim(l) = <<>> \/ l[1] = "#"
IsMacroLine(l) == ~IsIgnoredLine(l) /\ l[1] = "\t"
IsHeaderLine(l) == ~IsIgnoredLine(l) /\ l[1] # "\t"

\* a file of header lines and macro lines is well formed when no macro line
\* comes before the first header
WellFormed(f) ==
    \A k \in 1 .. Len(f) :
        /\ ~IsIgnoredLine(f[k])
        /\ IsMacroLine(f[k]) => \E h \in 1 .. k - 1 : IsHeaderLine(f[h])

\* a text without its leading whitespace
RECURSIVE ltrim(_)
ltrim(l) == IF l # <<>> /\ IsSpace(Head(l)) THEN ltrim(Tail(l)) ELSE l

\* the macro texts of a file, in file order
RECURSIVE MacroTexts(_)
MacroTexts(f) ==
    IF f = <<>> THEN <<>>
    ELSE (IF IsMacroLine(Head(f)) THEN <<ltrim(rtrim(Head(f)))>> ELSE <<>>)
         \o MacroTexts(Tail(f))

\* C12: for a well-formed file the texts the store offers for typing are the
\* tab-led lines without their leading whitespace, in file order (a header
\* line is a bank name, never a macro), and the cursor starts at the first.
C12_ParseStructure ==
    (Parsed /\ WellFormed(file)) => (lines = MacroTexts(file) /\ curr = 0)

(***************************************************************************)
(* Further properties of hotkey_fn_say (checked under SaySpec).            *)
(***************************************************************************)
\* the events of a sequence of OS calls, in order
RECURSIVE CallEvents(_)
CallEvents(calls) ==
    IF calls = <<>> THEN <<>> ELSE Head(calls).events \o CallEvents(Tail(calls))

\* C18: over the whole output of one say invocation, the trigger keystroke
\* and then the injected sequence, every press of a key is followed later by
\* a release of the same key.
C18_PressReleaseBalance ==
    pcSay = "returned" =>
        LET out == CallEvents(log)
        IN  \A p \in 1 .. Len(out) :
                out[p].dwFlags = 0 =>
                    \E q \in p + 1 .. Len(out) : IsRelease(out[q], out[p].wVk)

\* C19: every write of an event into inputs is preceded by a C_RESIZE executed
\* after the previous write, and the index written is below the capacity at
\* the moment of the write, the write of the trailing ENTER included.
C19_ResizeBeforeWrite ==
    \A k \in 1 .. Len(writes) : writes[k].resized /\ writes[k].index < writes[k].cap

(***************************************************************************)
(* Properties of the wheel (checked under Spec and ReleaseSpec).           *)
(***************************************************************************)
\* C14: the second of two applications of the toggle action bound to NUMPAD0
\* leaves every binding registered or unregistered as it was before the first,
\* and the toggle's own state (is_active) as it was before the first.
C14_ToggleTwiceRestores ==
    [][(toggled.n = 1 /\ toggled'.n = 2)
           => (registered' = toggled.before[1] /\ is_active' = toggled.before[2])]_vars

C14_Witness ==
    /\ toggled.n = 2
    /\ is_active = toggled.before[2]
    /\ registered = toggled.before[1]
    /\ \A h \in 0 .. HOTKEYS_LEN - 1 : registered[h]

\* C15: while the wheel is active a WM_HOTKEY delivered to the hook invokes
\* nothing: is_running, is_active, the window, the renderer and the macro state
\* stay as they are; and the wheel leaves the active state only in a loop
\* iteration of main that reads the toggle key as released.
C15_DispatchGate ==
    /\ [][(is_active # 0 /\ \E w \in 0 .. MaxWParam : Win32_CustomEventHandler("WM_HOTKEY", w))
             => UNCHANGED <<pc, is_running, is_active, gWindow, gRenderer, lines, curr>>]_vars
    /\ [][(is_active # 0 /\ is_active' = 0) => (main_body /\ ks' = <<0>>)]_vars

C15_Witness ==
    /\ is_active # 0
    /\ is_running # 0
    /\ delivered = <<"WM_HOTKEY", QUIT_ID>>

\* C16: between the actions of the loop and of the hook, an inactive wheel has
\* neither window nor renderer, and, as long as no SDL_CreateWindow or
\* SDL_CreateRenderer call has failed, an active wheel has both; Render then
\* never draws with a NULL renderer, and it draws with a renderer only while
\* the wheel that owns it is active.
C16_WheelWindow ==
    /\ is_active = 0 => (gWindow = NULL /\ gRenderer = NULL)
    /\ ~sdl_failed =>
          /\ is_active # 0 => (gWindow # NULL /\ gRenderer # NULL)
          /\ rendered # NULL
    /\ rendered \notin {"none", "return -1", NULL} => (is_active # 0 /\ rendered = gRenderer)

C16_Witness ==
    /\ is_active # 0
    /\ ~sdl_failed
    /\ rendered = "renderer"
    /\ toggled.n = 1
    /\ toggled.before[2] = 0

\* C17: a loop iteration that finds the wheel active and reads the toggle key
\* as not pressed ends with the wheel deactivated, window and renderer NULL;
\* and when such an iteration comes while the loop runs, an active wheel is
\* eventually deactivated unless the loop has ended first.
C17_ReleaseResponse ==
    /\ [][(main_body /\ is_active # 0 /\ ks' = <<0>>)
             => (is_active' = 0 /\ gWindow' = NULL /\ gRenderer' = NULL)]_vars
    /\ ((is_active # 0 /\ pc = "poll") ~> (is_active = 0 \/ pc # "poll"))

C17_Witness ==
    /\ ks = <<0>>
    /\ is_active = 0
    /\ toggled.n = 2
    /\ rendered = "return -1"
    /\ pc = "poll"

\* C13: cursor wraparound.  For a store with N > 0 banks, N consecutive
\* shift_bank(+1) bring the cursor back to where it was, shift_bank(-1) from
\* 0 gives N - 1, shift_bank(+1) from N - 1 gives 0; the same for shift_macro
\* against the active bank's macro count; and after any shifts every cursor
\* lies in [0, N).
C13_CursorInRange ==
    /\ Len(banks) > 0 => current_bank_index \in 0 .. Len(banks) - 1
    /\ \A b \in 1 .. Len(banks) :
          banks[b].macros > 0 => banks[b].current_macro_index \in 0 .. banks[b].macros - 1

C13_RunReturns ==
    /\ (nav_run.axis = "bank" /\ nav_run.count = Len(banks))
          => current_bank_index = nav_run.start
    /\ (nav_run.axis = "macro" /\ nav_run.count = banks[nav_run.bank + 1].macros)
          => banks[nav_run.bank + 1].current_macro_index = nav_run.start

C13_Edges ==
    /\ (nav_last.len > 0 /\ nav_last.delta = -1 /\ nav_last.from = 0)
          => nav_last.to = nav_last.len - 1
    /\ (nav_last.len > 0 /\ nav_last.delta = 1 /\ nav_last.from = nav_last.len - 1)
          => nav_last.to = 0

C13_CursorWraparound == C13_CursorInRange /\ C13_RunReturns /\ C13_Edges

\* two shift_macro(+1) in the second bank of two, which has two macros, after
\* shift_bank(+1) moved there: the macro cursor went 0, 1, 0
C13_Witness ==
    /\ Len(banks) = 2
    /\ current_bank_index = 1
    /\ banks[2].macros = 2
    /\ nav_run = [axis |-> "macro", bank |-> 1, start |-> 0, count |-> 2]
    /\ nav_last = [op |-> "shift_macro", delta |-> 1, from |-> 1, to |-> 0, len |-> 2]
    /\ banks[2].current_macro_index = 0

=============================================================================
